---- MODULE Spec2Model ----
(***************************************************************************)
(* Workout service (app/main.py, app/rabbit.py): POST /workouts checks the *)
(* user through a pybreaker.CircuitBreaker, commits the row and then runs  *)
(* the publish statement; the other endpoints read or change rows by id.   *)
(*                                                                         *)
(* Reading notes.  src/app/main.py:189 lacks its ':' and                   *)
(* src/app/rabbit.py:1 starts with a stray ']'; the model reads both lines *)
(* as the statements they evidently are.  WorkoutDB (models.py:14-24) has  *)
(* the attribute workout_id and no attribute id, so every `workout.id` and *)
(* `WorkoutDB.id` in main.py raises AttributeError.                        *)
(***************************************************************************)
EXTENDS Integers, FiniteSets, Sequences, TLC

\* ---------------------------------------------------------------- config
USER_CB_FAIL_MAX == 3
USER_CB_RESET_TIMEOUT == 30

\* ---------------------------------------------------------------- bounds
NumReqs == 2
MaxTime == 60
TickStep == 15
MaxRows == 2
NumCalls == 2
NumOptional == 2
MinStatus == 100
MaxStatus == 599

Reqs == 1..NumReqs
UserIds == {1, 999}
AppEnvs == {"test", "production"}

\* What one GET /users/{id} can produce: httpx.RequestError, or a status.
RequestError == 0
StatusCodes == {200, 204, 404, 500}
HttpOutcomes == {RequestError} \cup StatusCodes
NoAnswer == -1

\* opened_at of a breaker that has never opened (pybreaker: None).
NoTime == -1

\* ------------------------------------------------------------ exceptions
NoExc == [type |-> "none", status |-> 0, detail |-> "none"]
HTTPException(s, d) == [type |-> "HTTPException", status |-> s, detail |-> d]
CircuitBreakerError == [type |-> "CircuitBreakerError", status |-> 0, detail |-> "none"]
AttributeError == [type |-> "AttributeError", status |-> 0, detail |-> "none"]

NoResp == [status |-> 0, detail |-> "none"]
Response(s, d) == [status |-> s, detail |-> d]

\* Columns of WorkoutDB.
WorkoutDBAttrs == {"workout_id", "user_id", "workout_type", "duration_minutes",
                   "calories", "workout_date", "notes"}

\* Python attribute lookup on a WorkoutDB instance or on the class.
HasAttr(a) == a \in WorkoutDBAttrs

\* _check_user_exists_via_http without its last test (status != 200).
_check_user_exists_via_http_lax(o) ==
    IF o = RequestError THEN HTTPException(503, "unavailable")
    ELSE IF o = 404 THEN HTTPException(404, "not found")
    ELSE IF o >= 500 THEN HTTPException(503, "error")
    ELSE NoExc

\* _check_user_exists_via_http accepting every 2xx status.
_check_user_exists_via_http_2xx(o) ==
    IF o = RequestError THEN HTTPException(503, "unavailable")
    ELSE IF o = 404 THEN HTTPException(404, "not found")
    ELSE IF o >= 500 THEN HTTPException(503, "error")
    ELSE IF o < 200 \/ o > 299 THEN HTTPException(503, "unverified")
    ELSE NoExc

\* _check_user_exists_via_http: the exception raised for one outcome of the
\* GET (NoExc when the function returns).
_check_user_exists_via_http(o) ==
    IF o = RequestError THEN HTTPException(503, "unavailable")
    ELSE IF o = 404 THEN HTTPException(404, "not found")
    ELSE IF o >= 500 THEN HTTPException(503, "error")
    ELSE IF o # 200 THEN HTTPException(503, "unverified")
    ELSE NoExc

\* --------------------------------------------------- pybreaker, as called
\* The breaker is a record [state, counter, opened_at].
Breaker(s, c, t) == [state |-> s, counter |-> c, opened_at |-> t]

\* CircuitOpenState.before_call: raise while the timeout has not elapsed.
StillOpen(b, t) ==
    /\ b.state = "open"
    /\ b.opened_at # NoTime
    /\ t < b.opened_at + USER_CB_RESET_TIMEOUT

\* before_call of the three states, for an admitted call: an open breaker
\* whose timeout elapsed goes half-open and calls again.
BeforeCall(b) ==
    IF b.state = "open" THEN Breaker("half-open", b.counter, b.opened_at) ELSE b

\* OnSuccess without reset_counter().
OnSuccess_keep(b) == Breaker("closed", b.counter, b.opened_at)

\* _handle_success: reset_counter(), then on_success (half-open: close()).
OnSuccess(b) == Breaker("closed", 0, b.opened_at)

\* Trips with the threshold compared by > .
Trips_late(b) ==
    \/ b.state = "half-open"
    \/ b.state = "closed" /\ b.counter + 1 > USER_CB_FAIL_MAX

\* Does this failure trip the breaker?  closed: counter >= fail_max after
\* _inc_counter; half-open: always.
Trips(b) ==
    \/ b.state = "half-open"
    \/ b.state = "closed" /\ b.counter + 1 >= USER_CB_FAIL_MAX

\* OnFailure with a failed trial keeping the opened_at of the first opening.
OnFailure_stale(b, t) ==
    IF Trips(b) THEN Breaker("open", b.counter + 1, IF b.opened_at = NoTime THEN t ELSE b.opened_at)
    ELSE Breaker(b.state, b.counter + 1, b.opened_at)

\* _handle_error: _inc_counter(), then on_failure (open(): opened_at = now).
OnFailure(b, t) ==
    IF Trips(b) THEN Breaker("open", b.counter + 1, t)
    ELSE Breaker(b.state, b.counter + 1, b.opened_at)

\* What CircuitBreaker.call raises for a call whose function raised e:
\* CircuitBreakerError when the failure trips the breaker, else e.
Raised(b, e) ==
    IF e = NoExc THEN NoExc
    ELSE IF Trips(b) THEN CircuitBreakerError
    ELSE e

\* ensure_user_exists: CircuitBreakerError becomes the 503 "circuit is open".
ensure_user_exists(e) ==
    IF e.type = "CircuitBreakerError" THEN HTTPException(503, "circuit") ELSE e

\* ------------------------------------------------------------------ state
\* publish_event: no except clause, so what any of its awaits raises
\* (connect_robust, channel, declare_exchange, publish) leaves the function.
PublishOutcomes == {"ok", "connect_robust", "channel", "declare_exchange", "publish"}
AMQPError == [type |-> "AMQPError", status |-> 0, detail |-> "none"]
publish_event(o) == IF o = "ok" THEN NoExc ELSE AMQPError

\* The payload expression of the publish statement reads workout.id first.
PayloadExc == IF HasAttr("id") THEN NoExc ELSE AttributeError

\* The filter expression WorkoutDB.id == workout_id of the three by-id handlers.
FilterExc == IF HasAttr("id") THEN NoExc ELSE AttributeError

Row(i, u) == [workout_id |-> i, user_id |-> u]

\* The record kept of the request that finished last.
Done(o, u, a, c, s, d, rw, p, f, w) ==
    [op |-> o, user_id |-> u, answer |-> a, calls |-> c, status |-> s, detail |-> d,
     row |-> rw, publishes |-> p, pub_failed |-> f, waited |-> w]
NoDone == Done("none", 0, NoAnswer, 0, 0, "none", 0, 0, FALSE, FALSE)

VARIABLES cb, lock, loop, now, app_env, db, next_id, pc, user_id, row, answer, calls, waited, last, fail_run,
          ppc, conn, pres, broker,
          apc, aent, amand, alocal, aopt, ares,
          chk_in, chk_out
\* cb        user_service_breaker
\* lock      owner of the breaker's RLock (0: free)
\* loop      request whose create_workout occupies the event loop (0: none)
\* now       clock, seconds
\* app_env   os.getenv("APP_ENV")
\* db        workouts table: set of rows
\* next_id   next primary key
\* pc        position of each POST /workouts request slot
\* user_id   payload.user_id
\* row       workout_id committed by the request (0: none)
\* answer    what the users service gave this request
\* calls     GETs to the users service made by this request
\* waited    history: the request was pending while the breaker was half-open,
\*           at the present clock reading
\* last      history: the request that finished last, with its response
\* fail_run  history: failed live checks since the last successful one
\* ppc       position of each publish_event call
\* conn      the connection of the call is open
\* pres      how the call ended: "ok", or the await that raised
\* broker    "up", or "silent": the broker answers nothing any more
\* apc       position of the aggregation request
\* aent      its entity id
\* amand     outcome of the mandatory dependency call
\* alocal    result of the local read
\* aopt      outcome of each optional dependency call
\* ares      the response of the aggregation
\* chk_in    outcome of the GET handed to _check_user_exists_via_http
\* chk_out   what the function raised for it

mainVars == <<cb, lock, loop, now, app_env, db, next_id, pc, user_id, row, answer, calls, waited, last, fail_run>>
pubVars == <<ppc, conn, pres, broker>>
aggVars == <<apc, aent, amand, alocal, aopt, ares>>
chkVars == <<chk_in, chk_out>>
auxVars == <<pubVars, aggVars, chkVars>>
vars == <<mainVars, auxVars>>

Calls == 1..NumCalls

Pending == {r \in Reqs : pc[r] # "idle"}

MainInit ==
    /\ cb = Breaker("closed", 0, NoTime)
    /\ lock = 0
    /\ loop = 0
    /\ now = 0
    /\ app_env \in AppEnvs
    /\ db = {}
    /\ next_id = 1
    /\ pc = [r \in Reqs |-> "idle"]
    /\ user_id = [r \in Reqs |-> 1]
    /\ row = [r \in Reqs |-> 0]
    /\ answer = [r \in Reqs |-> NoAnswer]
    /\ calls = [r \in Reqs |-> 0]
    /\ waited = [r \in Reqs |-> FALSE]
    /\ last = NoDone
    /\ fail_run = 0

\* No publish_event call has been made.
PubIdle ==
    /\ ppc = [c \in Calls |-> "idle"]
    /\ conn = [c \in Calls |-> FALSE]
    /\ pres = [c \in Calls |-> "none"]
    /\ broker = "up"

\* The optional dependencies of the aggregation.
Optional == 1..NumOptional

\* The response of an aggregation: status and the three fields.
AggResponse(st, pr, lo, op) == [status |-> st, primary |-> pr, local |-> lo, optional |-> op]
NoAggResponse == AggResponse(0, 0, {}, [d \in Optional |-> "none"])

\* No aggregation request has been made.
AggIdle ==
    /\ apc = "idle"
    /\ aent = 0
    /\ amand = NoAnswer
    /\ alocal = {}
    /\ aopt = [d \in Optional |-> "none"]
    /\ ares = NoAggResponse

Pending_chk == [type |-> "pending", status |-> 0, detail |-> "none"]

\* No outcome is being classified.
ChkIdle ==
    /\ chk_in = NoAnswer
    /\ chk_out = Pending_chk

Init == MainInit /\ PubIdle /\ AggIdle /\ ChkIdle

\* The clock advances.
Tick ==
    /\ UNCHANGED auxVars
    /\ now + TickStep <= MaxTime
    /\ now' = now + TickStep
    /\ waited' = [r \in Reqs |-> pc[r] = "queued" /\ cb.state = "half-open"]
    /\ UNCHANGED <<cb, lock, loop, app_env, db, next_id, pc, user_id, row, answer,
                   calls, last, fail_run>>

\* A POST /workouts reaches the server and waits for the event loop.
Arrive(r, u) ==
    /\ UNCHANGED auxVars
    /\ pc[r] = "idle"
    /\ next_id + Cardinality(Pending) <= MaxRows
    /\ pc' = [pc EXCEPT ![r] = "queued"]
    /\ user_id' = [user_id EXCEPT ![r] = u]
    /\ waited' = [waited EXCEPT ![r] = (cb.state = "half-open")]
    /\ UNCHANGED <<cb, lock, loop, now, app_env, db, next_id, row, answer, calls,
                   last, fail_run>>

\* The request r ends with response (s, d); its slot is free again.
Respond(r, a, s, d, p, f) ==
    /\ last' = Done("create", user_id[r], a, calls[r], s, d, row[r], p, f, waited[r])
    /\ answer' = [answer EXCEPT ![r] = NoAnswer]
    /\ pc' = [pc EXCEPT ![r] = "idle"]
    /\ user_id' = [user_id EXCEPT ![r] = 1]
    /\ row' = [row EXCEPT ![r] = 0]
    /\ calls' = [calls EXCEPT ![r] = 0]
    /\ waited' = [waited EXCEPT ![r] = FALSE]

\* create_workout starts; the breaker is open and rejects the call.
BreakerReject(r) ==
    /\ UNCHANGED auxVars
    /\ pc[r] = "queued"
    /\ loop = 0 /\ lock = 0
    /\ StillOpen(cb, now)
    /\ LET e == ensure_user_exists(CircuitBreakerError)
       IN  Respond(r, NoAnswer, e.status, e.detail, 0, FALSE)
    /\ UNCHANGED <<cb, lock, loop, now, app_env, db, next_id, fail_run>>

\* create_workout starts; the breaker lets the call through and the GET to
\* the users service is sent.  The breaker's lock is held during the call.
BreakerAdmit(r) ==
    /\ UNCHANGED auxVars
    /\ pc[r] = "queued"
    /\ loop = 0 /\ lock = 0
    /\ ~StillOpen(cb, now)
    /\ cb' = BeforeCall(cb)
    /\ lock' = r
    /\ loop' = r
    /\ pc' = [pc EXCEPT ![r] = "http"]
    /\ calls' = [calls EXCEPT ![r] = @ + 1]
    /\ waited' = [q \in Reqs |->
                    IF q # r /\ pc[q] = "queued" /\ cb'.state = "half-open"
                    THEN TRUE ELSE waited[q]]
    /\ UNCHANGED <<now, app_env, db, next_id, user_id, row, answer, last, fail_run>>

\* The GET ends with outcome o; the breaker records it and the check either
\* returns or raises.
HttpReturn(r, o) ==
    /\ UNCHANGED auxVars
    /\ pc[r] = "http"
    /\ lock = r
    /\ LET e == _check_user_exists_via_http(o)
           x == ensure_user_exists(Raised(cb, e))
       IN  /\ cb' = IF e = NoExc THEN OnSuccess(cb) ELSE OnFailure(cb, now)
           /\ fail_run' = IF e = NoExc THEN 0 ELSE fail_run + 1
           /\ IF x = NoExc
              THEN /\ pc' = [pc EXCEPT ![r] = "checked"]
                   /\ answer' = [answer EXCEPT ![r] = o]
                   /\ UNCHANGED <<loop, user_id, row, calls, waited, last>>
              ELSE /\ Respond(r, o, x.status, x.detail, 0, FALSE)
                   /\ loop' = 0
    /\ lock' = 0
    /\ UNCHANGED <<now, app_env, db, next_id>>

\* Commit placed before the check has returned.
Commit_early(r) ==
    /\ UNCHANGED auxVars
    /\ pc[r] = "http"
    /\ loop = r
    /\ db' = db \cup {Row(next_id, user_id[r])}
    /\ row' = [row EXCEPT ![r] = next_id]
    /\ next_id' = next_id + 1
    /\ pc' = [pc EXCEPT ![r] = "committed"]
    /\ UNCHANGED <<cb, lock, loop, now, app_env, user_id, answer, calls, waited,
                   last, fail_run>>

\* db.add / db.commit / db.refresh: the row gets its primary key.
Commit(r) ==
    /\ UNCHANGED auxVars
    /\ pc[r] = "checked"
    /\ loop = r
    /\ db' = db \cup {Row(next_id, user_id[r])}
    /\ row' = [row EXCEPT ![r] = next_id]
    /\ next_id' = next_id + 1
    /\ pc' = [pc EXCEPT ![r] = "committed"]
    /\ UNCHANGED <<cb, lock, loop, now, app_env, user_id, answer, calls, waited,
                   last, fail_run>>

\* APP_ENV == "test": the publish statement is skipped; return workout.
SkipPublish(r) ==
    /\ UNCHANGED auxVars
    /\ pc[r] = "committed"
    /\ loop = r
    /\ app_env = "test"
    /\ Respond(r, answer[r], 201, "created", 0, FALSE)
    /\ loop' = 0
    /\ UNCHANGED <<cb, lock, now, app_env, db, next_id, fail_run>>

\* PublishStep with the row taken back when the publish statement raises.
PublishStep_rollback(r) ==
    /\ UNCHANGED auxVars
    /\ pc[r] = "committed"
    /\ loop = r
    /\ app_env # "test"
    /\ \E o \in PublishOutcomes :
         LET e == IF PayloadExc # NoExc THEN PayloadExc ELSE publish_event(o)
             p == IF PayloadExc = NoExc THEN 1 ELSE 0
         IN  /\ IF e = NoExc THEN Respond(r, answer[r], 201, "created", p, FALSE)
                ELSE Respond(r, answer[r], 500, "internal", p, TRUE)
             /\ db' = IF e = NoExc THEN db ELSE db \ {Row(row[r], user_id[r])}
    /\ loop' = 0
    /\ UNCHANGED <<cb, lock, now, app_env, next_id, fail_run>>

\* `await publish_event("workout.created", {...})`: the payload is evaluated,
\* then publish_event is called; nothing catches what either raises, and the
\* framework answers 500.
PublishStep(r) ==
    /\ UNCHANGED auxVars
    /\ pc[r] = "committed"
    /\ loop = r
    /\ app_env # "test"
    /\ \E o \in PublishOutcomes :
         LET e == IF PayloadExc # NoExc THEN PayloadExc ELSE publish_event(o)
             p == IF PayloadExc = NoExc THEN 1 ELSE 0
         IN  /\ IF e = NoExc THEN Respond(r, answer[r], 201, "created", p, FALSE)
                ELSE Respond(r, answer[r], 500, "internal", p, TRUE)
             /\ db' = db
    /\ loop' = 0
    /\ UNCHANGED <<cb, lock, now, app_env, next_id, fail_run>>

\* The response of a sync handler (run when the event loop dispatches it).
Finish(o, s, d) ==
    /\ UNCHANGED auxVars
    /\ loop = 0
    /\ last' = Done(o, 0, NoAnswer, 0, s, d, 0, 0, FALSE, FALSE)
    /\ UNCHANGED <<cb, lock, loop, now, app_env, next_id, pc, user_id, row, answer,
                   calls, waited, fail_run>>

\* GET /workouts
get_all_workouts ==
    /\ Finish("get_all", 200, "list")
    /\ UNCHANGED db

\* GET /workouts/{workout_id}
get_workout_by_id(w) ==
    /\ IF FilterExc # NoExc THEN Finish("get_by_id", 500, "internal")
       ELSE IF \E x \in db : x.workout_id = w THEN Finish("get_by_id", 200, "workout")
       ELSE Finish("get_by_id", 404, "workout not found")
    /\ UNCHANGED db

\* PUT /workouts/{workout_id}: no updatable field is part of the modelled row.
update_workout(w) ==
    /\ IF FilterExc # NoExc THEN Finish("update", 500, "internal")
       ELSE IF \E x \in db : x.workout_id = w THEN Finish("update", 200, "workout")
       ELSE Finish("update", 404, "workout not found")
    /\ UNCHANGED db

\* DELETE /workouts/{workout_id}
delete_workout(w) ==
    IF FilterExc # NoExc THEN Finish("delete", 500, "internal") /\ UNCHANGED db
    ELSE IF \E x \in db : x.workout_id = w
         THEN Finish("delete", 204, "none") /\ db' = {x \in db : x.workout_id # w}
    ELSE Finish("delete", 404, "workout not found") /\ UNCHANGED db

WorkoutIds == 1..MaxRows

Next ==
    \/ Tick
    \/ \E r \in Reqs, u \in UserIds : Arrive(r, u)
    \/ \E r \in Reqs : BreakerReject(r)
    \/ \E r \in Reqs : BreakerAdmit(r)
    \/ \E r \in Reqs, o \in HttpOutcomes : HttpReturn(r, o)
    \/ \E r \in Reqs : Commit(r)
    \/ \E r \in Reqs : SkipPublish(r)
    \/ \E r \in Reqs : PublishStep(r)
    \/ get_all_workouts
    \/ \E w \in WorkoutIds : get_workout_by_id(w)
    \/ \E w \in WorkoutIds : update_workout(w)
    \/ \E w \in WorkoutIds : delete_workout(w)

Spec == Init /\ [][Next]_vars

\* ------------------------------------------- publish_event, await by await
\* The calls of publish_event, as the publish statement of create_workout
\* makes them once its payload is built.  An await completes only while the
\* broker answers: no await of publish_event carries a timeout.

\* The call ends: it returns (o = "ok") or the exception of await o leaves it.
PubEnd(c, o) ==
    /\ ppc' = [ppc EXCEPT ![c] = "done"]
    /\ pres' = [pres EXCEPT ![c] = o]

\* await publish_event(...)
CallPublish(c) ==
    /\ ppc[c] \in {"idle", "done"}
    /\ ppc' = [ppc EXCEPT ![c] = "connect_robust"]
    /\ pres' = [pres EXCEPT ![c] = "none"]
    /\ UNCHANGED <<conn, broker, mainVars, aggVars, chkVars>>

\* connection = await aio_pika.connect_robust(RABBIT_URL), before the try.
ConnectRobust(c, ok) ==
    /\ ppc[c] = "connect_robust"
    /\ broker = "up"
    /\ IF ok THEN /\ conn' = [conn EXCEPT ![c] = TRUE]
                  /\ ppc' = [ppc EXCEPT ![c] = "channel"]
                  /\ UNCHANGED pres
       ELSE PubEnd(c, "connect_robust") /\ UNCHANGED conn
    /\ UNCHANGED <<broker, mainVars, aggVars, chkVars>>

\* OpenChannel with the exception leaving the function past the finally.
OpenChannel_leak(c, ok) ==
    /\ ppc[c] = "channel"
    /\ broker = "up"
    /\ IF ok THEN ppc' = [ppc EXCEPT ![c] = "declare_exchange"] /\ UNCHANGED pres
       ELSE PubEnd(c, "channel")
    /\ UNCHANGED <<conn, broker, mainVars, aggVars, chkVars>>

\* channel = await connection.channel(); an exception goes to the finally.
OpenChannel(c, ok) ==
    /\ ppc[c] = "channel"
    /\ broker = "up"
    /\ ppc' = [ppc EXCEPT ![c] = IF ok THEN "declare_exchange" ELSE "close"]
    /\ pres' = [pres EXCEPT ![c] = IF ok THEN "none" ELSE "channel"]
    /\ UNCHANGED <<conn, broker, mainVars, aggVars, chkVars>>

\* exchange = await channel.declare_exchange(...)
DeclareExchange(c, ok) ==
    /\ ppc[c] = "declare_exchange"
    /\ broker = "up"
    /\ ppc' = [ppc EXCEPT ![c] = IF ok THEN "publish" ELSE "close"]
    /\ pres' = [pres EXCEPT ![c] = IF ok THEN "none" ELSE "declare_exchange"]
    /\ UNCHANGED <<conn, broker, mainVars, aggVars, chkVars>>

\* await exchange.publish(message, routing_key=routing_key)
Publish(c, ok) ==
    /\ ppc[c] = "publish"
    /\ broker = "up"
    /\ ppc' = [ppc EXCEPT ![c] = "close"]
    /\ pres' = [pres EXCEPT ![c] = IF ok THEN "ok" ELSE "publish"]
    /\ UNCHANGED <<conn, broker, mainVars, aggVars, chkVars>>

\* finally: await connection.close(); then the call returns or re-raises.
Close(c) ==
    /\ ppc[c] = "close"
    /\ broker = "up"
    /\ conn' = [conn EXCEPT ![c] = FALSE]
    /\ PubEnd(c, pres[c])
    /\ UNCHANGED <<broker, mainVars, aggVars, chkVars>>

\* From now on the broker answers nothing.
BrokerStops ==
    /\ broker = "up"
    /\ broker' = "silent"
    /\ UNCHANGED <<ppc, conn, pres, mainVars, aggVars, chkVars>>

NextPub ==
    \/ \E c \in Calls : CallPublish(c)
    \/ \E c \in Calls, ok \in BOOLEAN : ConnectRobust(c, ok)
    \/ \E c \in Calls, ok \in BOOLEAN : OpenChannel(c, ok)
    \/ \E c \in Calls, ok \in BOOLEAN : DeclareExchange(c, ok)
    \/ \E c \in Calls, ok \in BOOLEAN : Publish(c, ok)
    \/ \E c \in Calls : Close(c)
    \/ BrokerStops

\* Every await that can complete does complete.
PubFair ==
    \A c \in Calls :
        /\ WF_vars(\E ok \in BOOLEAN : ConnectRobust(c, ok))
        /\ WF_vars(\E ok \in BOOLEAN : OpenChannel(c, ok))
        /\ WF_vars(\E ok \in BOOLEAN : DeclareExchange(c, ok))
        /\ WF_vars(\E ok \in BOOLEAN : Publish(c, ok))
        /\ WF_vars(Close(c))

InitPub == MainInit /\ app_env = "production" /\ PubIdle /\ AggIdle /\ ChkIdle

SpecPub == InitPub /\ [][NextPub]_vars /\ PubFair

\* ------------------------------------------------ aggregation (/summary)
\* GET /summary/{entityId}: one mandatory dependency call, the local read,
\* the optional dependency calls, the merge.
EntityIds == {1, 999}
OptOutcomes == {"ok", "error", "timeout"}
LocalResults == SUBSET WorkoutIds

\* The error of a failed mandatory call: not-found is 404, a transport
\* failure or any other status is 502.
MandatoryError(m) == IF m = 404 THEN 404 ELSE 502

\* The field of an optional dependency: its data, or empty after any failure.
OptionalField(o) == IF o = "ok" THEN "data" ELSE "empty"

\* AggResult with a missing mandatory entity answered as an empty primary.
AggResult_lenient(m, e, l, o) ==
    IF m = 200 \/ m = 404
    THEN AggResponse(200, IF m = 200 THEN e ELSE 0, l, [d \in Optional |-> OptionalField(o[d])])
    ELSE AggResponse(MandatoryError(m), 0, {}, [d \in Optional |-> "none"])

\* AggResult with a failed optional call failing the aggregation.
AggResult_strict(m, e, l, o) ==
    IF m = 200 /\ \A d \in Optional : o[d] \in {"ok", "none"}
    THEN AggResponse(200, e, l, [d \in Optional |-> OptionalField(o[d])])
    ELSE AggResponse(IF m = 200 THEN 502 ELSE MandatoryError(m), 0, {}, [d \in Optional |-> "none"])

\* The merge: the mandatory failure is the one reported; otherwise 200 with
\* primary, local and one field per optional dependency.
AggResult(m, e, l, o) ==
    IF m = 200
    THEN AggResponse(200, e, l, [d \in Optional |-> OptionalField(o[d])])
    ELSE AggResponse(MandatoryError(m), 0, {}, [d \in Optional |-> "none"])

\* aggregate(entityId): the mandatory call is issued.
aggregate(e) ==
    /\ apc \in {"idle", "done"}
    /\ apc' = "mandatory"
    /\ aent' = e
    /\ amand' = NoAnswer
    /\ alocal' = {}
    /\ aopt' = [d \in Optional |-> "none"]
    /\ ares' = NoAggResponse
    /\ UNCHANGED <<mainVars, pubVars, chkVars>>

\* Step 1: the mandatory call ends.  After a failure the optional calls are
\* either not issued (short) or issued and their results discarded.
MandatoryReturn(m, short) ==
    /\ apc = "mandatory"
    /\ amand' = m
    /\ IF m # 200 /\ short
       THEN apc' = "done" /\ ares' = AggResult(m, aent, alocal, aopt)
       ELSE apc' = (IF m = 200 THEN "local" ELSE "optional") /\ UNCHANGED ares
    /\ UNCHANGED <<aent, alocal, aopt, mainVars, pubVars, chkVars>>

\* Step 2: the local read.
LocalRead(l) ==
    /\ apc = "local"
    /\ alocal' = l
    /\ apc' = "optional"
    /\ UNCHANGED <<aent, amand, aopt, ares, mainVars, pubVars, chkVars>>

\* Step 3: one optional call ends, in any order.
OptionalReturn(d, o) ==
    /\ apc = "optional"
    /\ aopt[d] = "none"
    /\ aopt' = [aopt EXCEPT ![d] = o]
    /\ UNCHANGED <<apc, aent, amand, alocal, ares, mainVars, pubVars, chkVars>>

\* Step 4: all calls have ended; merge and respond.
Merge ==
    /\ apc = "optional"
    /\ \A d \in Optional : aopt[d] # "none"
    /\ ares' = AggResult(amand, aent, alocal, aopt)
    /\ apc' = "done"
    /\ UNCHANGED <<aent, amand, alocal, aopt, mainVars, pubVars, chkVars>>

NextAgg ==
    \/ \E e \in EntityIds : aggregate(e)
    \/ \E m \in HttpOutcomes, short \in BOOLEAN : MandatoryReturn(m, short)
    \/ \E l \in LocalResults : LocalRead(l)
    \/ \E d \in Optional, o \in OptOutcomes : OptionalReturn(d, o)
    \/ Merge

InitAgg == MainInit /\ app_env = "production" /\ PubIdle /\ AggIdle /\ ChkIdle

SpecAgg == InitAgg /\ [][NextAgg]_vars

\* ---------------------------------- _check_user_exists_via_http, by input
CheckInputs == {RequestError} \cup (MinStatus..MaxStatus)

\* The function is applied to the outcome of the GET.
Classify ==
    /\ chk_out = Pending_chk
    /\ chk_out' = _check_user_exists_via_http(chk_in)
    /\ UNCHANGED <<chk_in, mainVars, pubVars, aggVars>>

InitCheck ==
    /\ MainInit /\ app_env = "production" /\ PubIdle /\ AggIdle
    /\ chk_in \in CheckInputs
    /\ chk_out = Pending_chk

SpecCheck == InitCheck /\ [][Classify]_vars

\* ------------------------------------------- recovery of an open breaker
\* The breaker has just been opened by USER_CB_FAIL_MAX transport errors in
\* a row; from here on the users service answers 200, time passes and POSTs
\* keep arriving and are served in turn.
InitOpen ==
    /\ cb = Breaker("open", USER_CB_FAIL_MAX, 0)
    /\ fail_run = USER_CB_FAIL_MAX
    /\ last = Done("create", 1, RequestError, 1, 503, "circuit", 0, 0, FALSE, FALSE)
    /\ lock = 0 /\ loop = 0 /\ now = 0
    /\ app_env \in AppEnvs
    /\ db = {} /\ next_id = 1
    /\ pc = [r \in Reqs |-> "idle"]
    /\ user_id = [r \in Reqs |-> 1]
    /\ row = [r \in Reqs |-> 0]
    /\ answer = [r \in Reqs |-> NoAnswer]
    /\ calls = [r \in Reqs |-> 0]
    /\ waited = [r \in Reqs |-> FALSE]
    /\ PubIdle /\ AggIdle /\ ChkIdle

NextRecover ==
    \/ Tick
    \/ \E r \in Reqs, u \in UserIds : Arrive(r, u)
    \/ \E r \in Reqs : BreakerReject(r)
    \/ \E r \in Reqs : BreakerAdmit(r)
    \/ \E r \in Reqs : HttpReturn(r, 200)
    \/ \E r \in Reqs : Commit(r)
    \/ \E r \in Reqs : SkipPublish(r)
    \/ \E r \in Reqs : PublishStep(r)

\* Time passes, requests arrive, the event loop serves every queued request,
\* the GET (bounded by USER_SERVICE_TIMEOUT) ends, the handler runs on.
RecoverFair ==
    /\ WF_vars(Tick)
    /\ \A r \in Reqs :
        /\ WF_vars(\E u \in UserIds : Arrive(r, u))
        /\ SF_vars(BreakerReject(r))
        /\ SF_vars(BreakerAdmit(r))
        /\ WF_vars(HttpReturn(r, 200))
        /\ WF_vars(Commit(r))
        /\ WF_vars(SkipPublish(r))
        /\ WF_vars(PublishStep(r))

SpecRecover == InitOpen /\ [][NextRecover]_vars /\ RecoverFair

\* ----------------------------------------------------------------- claims
InCall == {r \in Reqs : pc[r] = "http"}

\* C1: starting from a closed breaker with count 0, the breaker is closed
\* while fewer than USER_CB_FAIL_MAX checks have failed in a row, it is open
\* from the USER_CB_FAIL_MAX-th failure on, and a POST that starts while the
\* breaker is open and the reset timeout has not elapsed ends with 503
\* without a GET to the users service and without touching the breaker.
C1_OpensAtThreshold ==
    /\ [](fail_run < USER_CB_FAIL_MAX <=> cb.state = "closed")
    /\ [][ /\ (fail_run' = USER_CB_FAIL_MAX /\ fail_run = USER_CB_FAIL_MAX - 1
                 => cb.state = "closed" /\ cb'.state = "open" /\ cb'.opened_at = now)
           /\ \A r \in Reqs :
                (/\ pc[r] = "queued" /\ pc'[r] # "queued"
                 /\ cb.state = "open" /\ now < cb.opened_at + USER_CB_RESET_TIMEOUT)
                => /\ pc'[r] = "idle"
                   /\ last'.status = 503 /\ last'.calls = 0 /\ last'.answer = NoAnswer
                   /\ cb' = cb /\ InCall' = InCall ]_vars

\* C1 witness: the request after the USER_CB_FAIL_MAX-th failure in a row was
\* rejected without a call.
C1_Witness ==
    /\ fail_run = USER_CB_FAIL_MAX /\ cb.state = "open"
    /\ last.op = "create" /\ last.status = 503 /\ last.calls = 0

\* C2: a POST whose GET to the users service was made and answered 404 is
\* answered 404.
C2_NotFoundIs404 ==
    (last.op = "create" /\ last.calls = 1 /\ last.answer = 404) => last.status = 404

\* C3: the table changes only by the commit of a POST whose own check made
\* a GET that returned 200; a publish_event call is made only by such a POST
\* after its commit; a POST whose check raised (404, 503, circuit open)
\* leaves the table as it is and publishes nothing.
C3_WriteOnlyAfter200 ==
    [][ /\ (db' # db =>
              \E r \in Reqs : /\ pc[r] = "checked" /\ pc'[r] = "committed"
                              /\ answer[r] = 200 /\ calls[r] = 1
                              /\ db' = db \cup {Row(next_id, user_id[r])})
        /\ \A r \in Reqs :
             /\ (pc[r] = "http" /\ pc'[r] = "checked" => answer'[r] = 200)
             /\ (pc[r] \in {"queued", "http"} /\ pc'[r] = "idle"
                   => /\ db' = db
                      /\ last'.status \in {404, 503}
                      /\ last'.row = 0 /\ last'.publishes = 0)
             /\ (pc[r] # "idle" /\ pc'[r] = "idle" /\ last'.publishes > 0
                   => last'.answer = 200 /\ Row(last'.row, last'.user_id) \in db) ]_vars

\* C3 witness: a POST was answered 404 with nothing written, after another
\* POST had committed a row.
C3_Witness ==
    /\ last.op = "create" /\ last.status = 404 /\ last.row = 0
    /\ db # {}

\* C4: the 503 with the circuit-open detail is the response of exactly the
\* POSTs that made no GET to the users service.
C4_CircuitOnlyWithoutCall ==
    last.op = "create" => (last.detail = "circuit" <=> last.calls = 0)

\* C5: a POST that starts when the open breaker has aged past the reset
\* timeout is let through with a single GET, as the half-open trial; while
\* the breaker is half-open exactly one GET is in flight; when the trial
\* succeeds the breaker is closed with count 0, when it fails the breaker is
\* open with opened_at set to the time of the failure.
C5_HalfOpenTrial ==
    /\ [](cb.state = "half-open" => Cardinality(InCall) = 1)
    /\ [][ \A r \in Reqs :
             /\ (/\ pc[r] = "queued" /\ pc'[r] # "queued"
                 /\ cb.state = "open" /\ now >= cb.opened_at + USER_CB_RESET_TIMEOUT)
                => pc'[r] = "http" /\ cb'.state = "half-open" /\ calls'[r] = 1
             /\ (pc[r] = "http" /\ pc'[r] # "http" /\ cb.state = "half-open")
                => IF pc'[r] = "checked"
                   THEN cb'.state = "closed" /\ cb'.counter = 0
                   ELSE /\ cb'.state = "open" /\ cb'.opened_at = now
                        /\ last'.calls = 1 ]_vars

\* C5 witness: a trial call has failed and the breaker is open again with
\* the time of that failure.
C5_Witness ==
    /\ cb.state = "open" /\ cb.opened_at >= USER_CB_RESET_TIMEOUT
    /\ fail_run > USER_CB_FAIL_MAX
    /\ last.op = "create" /\ last.calls = 1 /\ last.status = 503

\* C6: at most one GET is in flight while the breaker is half-open, and a
\* POST that was pending while the breaker was half-open is rejected with
\* the circuit-open 503 without a GET.
C6_OthersRejected ==
    /\ (cb.state = "half-open" => Cardinality(InCall) <= 1)
    /\ (last.op = "create" /\ last.waited => last.detail = "circuit" /\ last.calls = 0)

\* C7: a POST whose row was committed and whose publish statement raised is
\* answered 201.
C7_PublishFailureHidden ==
    (last.op = "create" /\ last.row # 0 /\ last.pub_failed) => last.status = 201

\* C8: when the publish statement of a POST raises, the table is what it
\* was before the statement, and it holds the row the POST committed.
C8_PublishFailureKeepsRows ==
    [][ \A r \in Reqs :
          (pc[r] = "committed" /\ pc'[r] = "idle" /\ last'.pub_failed)
          => /\ db' = db
             /\ Row(row[r], user_id[r]) \in db'
             /\ last'.row = row[r] ]_vars

\* C8 witness: a publish statement has raised and the row of that POST is
\* in the table.
C8_Witness ==
    /\ last.op = "create" /\ last.pub_failed
    /\ Row(last.row, last.user_id) \in db

\* C9: within one POST the check returns before the commit and the commit
\* happens before the publish statement: a row is committed only by a
\* request whose check has returned, the publish statement (or its skip) is
\* reached only from the committed position, and it reads the committed row.
C9_CheckCommitPublish ==
    /\ [](\A r \in Reqs :
            /\ (pc[r] = "checked" => answer[r] = 200 /\ row[r] = 0 /\ lock = 0)
            /\ (pc[r] = "committed" => answer[r] = 200 /\ Row(row[r], user_id[r]) \in db)
            /\ (pc[r] \in {"queued", "http"} => row[r] = 0))
    /\ [][ \A r \in Reqs :
             /\ (pc'[r] = "committed" /\ pc[r] # "committed"
                   => /\ pc[r] = "checked"
                      /\ Row(row'[r], user_id[r]) \notin db
                      /\ db' = db \cup {Row(row'[r], user_id[r])})
             /\ (pc'[r] = "checked" /\ pc[r] # "checked" => pc[r] = "http")
             /\ (pc[r] # "idle" /\ pc'[r] = "idle" /\ last'.status \in {201, 500}
                   => /\ pc[r] = "committed"
                      /\ last'.row = row[r] /\ last'.user_id = user_id[r]
                      /\ Row(last'.row, last'.user_id) \in db) ]_vars

\* C9 witness: in production mode a request stands before its publish
\* statement with its row committed.
C9_Witness ==
    \E r \in Reqs : /\ pc[r] = "committed" /\ app_env = "production"
                    /\ Row(row[r], user_id[r]) \in db

\* C10: in production mode a finished create, update or delete that
\* committed has made exactly one publish_event call.
C10_OnePublishPerCommit ==
    (/\ app_env # "test"
     /\ \/ last.op = "create" /\ last.row # 0
        \/ last.op \in {"update", "delete"} /\ last.status \in {200, 204})
    => last.publishes = 1

\* C11: every outbound call of a POST /workouts is bounded, so it ends:
\* a started publish_event call returns or raises, whatever the broker does.
C11_EveryPublishEnds ==
    \A c \in Calls : (ppc[c] = "connect_robust") ~> (ppc[c] = "done")

\* C12: a request whose GET to the users service is in flight does not own
\* the breaker's lock.
C12_NoLockAcrossCall ==
    \A r \in Reqs : pc[r] = "http" => lock # r

\* C13: a publish_event call that has returned or raised has its connection
\* closed, whichever await raised; the open connections are exactly those of
\* the calls in progress that have connected.
C13_ConnectionReleased ==
    /\ \A c \in Calls : ppc[c] \in {"idle", "done"} => ~conn[c]
    /\ \A c \in Calls : ppc[c] = "connect_robust" => ~conn[c]
    /\ Cardinality({c \in Calls : conn[c]})
         = Cardinality({c \in Calls : ppc[c] \in {"channel", "declare_exchange", "publish", "close"}})

\* C13 witness: one call has raised out of connection.channel() and holds no
\* connection, while another call is in progress with its connection open.
C13_Witness ==
    \E c, d \in Calls :
        /\ ppc[c] = "done" /\ pres[c] = "channel" /\ ~conn[c]
        /\ ppc[d] = "publish" /\ conn[d]

\* C14: when the mandatory dependency reports not-found the aggregation
\* answers 404, whatever the optional calls gave, and never a result.
C14_MandatoryNotFound ==
    (apc = "done" /\ amand = 404) => (ares.status = 404 /\ ares.primary = 0)

\* C14 witness: a 404 answer after the optional calls were issued, one
\* succeeding and one failing.
C14_Witness ==
    /\ apc = "done" /\ amand = 404 /\ ares.status = 404
    /\ \E d, f \in Optional : aopt[d] = "ok" /\ aopt[f] # "ok" /\ aopt[f] # "none"

\* C15: when the mandatory dependency succeeds the aggregation answers 200
\* with primary and local populated, and the field of every optional
\* dependency that failed or timed out is empty.
C15_OptionalDegrades ==
    (apc = "done" /\ amand = 200)
    => /\ ares.status = 200
       /\ ares.primary = aent /\ ares.local = alocal
       /\ \A d \in Optional : ares.optional[d] = (IF aopt[d] = "ok" THEN "data" ELSE "empty")

\* C15 witness: a 200 answer with one optional dependency timed out and its
\* field empty, local rows present.
C15_Witness ==
    /\ apc = "done" /\ amand = 200 /\ ares.status = 200 /\ alocal # {}
    /\ \E d \in Optional : aopt[d] = "timeout" /\ ares.optional[d] = "empty"

\* C16: in the closed state the breaker's counter is the number of checks
\* that failed since the last success, a successful check sets it to 0, and
\* a POST is rejected without a GET only after USER_CB_FAIL_MAX failures in
\* a row: shorter runs of failures leave the breaker closed and every call
\* live.
C16_SuccessResetsCount ==
    /\ [](cb.state = "closed" => cb.counter = fail_run)
    /\ [][ \A r \in Reqs :
             /\ (pc[r] = "http" /\ pc'[r] = "checked"
                   => cb'.state = "closed" /\ cb'.counter = 0 /\ fail_run' = 0)
             /\ (pc[r] = "queued" /\ pc'[r] = "idle"
                   => fail_run >= USER_CB_FAIL_MAX)
             /\ (pc[r] = "queued" /\ pc'[r] # "queued" /\ fail_run < USER_CB_FAIL_MAX
                   => pc'[r] = "http" /\ calls'[r] = 1 /\ cb'.state = "closed") ]_vars

\* C16 witness: after a failed live check a later check has succeeded and
\* the count is 0 again, the breaker never having opened.
C16_Witness ==
    /\ last.op = "create" /\ last.calls = 1 /\ last.status = 503
    /\ \E r \in Reqs : pc[r] = "checked"
    /\ cb.state = "closed" /\ cb.counter = 0 /\ cb.opened_at = NoTime

\* C17: the check classifies the outcome of the GET by the table: transport
\* error 503, status 404 404, status >= 500 503, status 200 no error, any
\* other status 503.
C17_Classification ==
    chk_out # Pending_chk =>
        /\ (chk_in = RequestError => chk_out.type = "HTTPException" /\ chk_out.status = 503)
        /\ (chk_in = 404 => chk_out.type = "HTTPException" /\ chk_out.status = 404)
        /\ (chk_in >= 500 => chk_out.type = "HTTPException" /\ chk_out.status = 503)
        /\ (chk_in = 200 => chk_out = NoExc)
        /\ (chk_in \in (1..499) \ {200, 404}
              => chk_out.type = "HTTPException" /\ chk_out.status = 503)

\* C17 witness: a 2xx status other than 200 was classified as unavailable.
C17_Witness ==
    chk_in = 204 /\ chk_out.type = "HTTPException" /\ chk_out.status = 503

\* C18: from an open breaker, with the users service answering 200 and
\* POSTs arriving after the reset timeout, the breaker is eventually closed
\* and a POST is eventually answered 201.
C18_Recovers ==
    /\ <>(cb.state = "closed")
    /\ <>(last.op = "create" /\ last.status = 201)

\* C19: the breaker is in one of its three states, its counter is not
\* negative, and a closed breaker's counter is below USER_CB_FAIL_MAX.
C19_BreakerInvariant ==
    /\ cb.state \in {"closed", "open", "half-open"}
    /\ cb.counter >= 0
    /\ (cb.state = "closed" => cb.counter < USER_CB_FAIL_MAX)

\* C19 witness: the breaker is closed one failure short of the threshold
\* while one request is in its GET and another is queued.
C19_Witness ==
    /\ cb.state = "closed" /\ cb.counter = USER_CB_FAIL_MAX - 1
    /\ \E r, q \in Reqs : pc[r] = "http" /\ pc[q] = "queued"

\* C20: a step of get_all_workouts, get_workout_by_id, update_workout or
\* delete_workout leaves the breaker as it is and makes no GET to the users
\* service, and while the breaker is open those requests get their normal
\* answers (200, 204, or 404 for an unknown workout).
C20_OthersIgnoreBreaker ==
    [][ (last' # last /\ last'.op \in {"get_all", "get_by_id", "update", "delete"})
        => /\ cb' = cb /\ lock' = lock /\ fail_run' = fail_run
           /\ calls' = calls /\ pc' = pc /\ last'.calls = 0
           /\ (cb.state = "open" => last'.status \in {200, 204, 404}) ]_vars

====
